---- MODULE Spec2Model ----
(***************************************************************************)
(* A model of hdmf_zarr.backend.ZarrIO: the write engine (write_builder,   *)
(* write_group, write_dataset, write_link, write_attributes), the read     *)
(* engine (read_builder and its recursive helpers), the reference          *)
(* resolver (__get_ref, resolve_ref) and the per-object registries         *)
(* (_written_builders, __built, __dci_queue).                              *)
(*                                                                         *)
(* Every handler is one action.  A handler's body is a chain of operators  *)
(* threading a "frame" record (store, registries, event log, status); an   *)
(* exception is a frame whose status is not "ok", which every later step   *)
(* passes through unchanged.                                               *)
(***************************************************************************)
EXTENDS Integers, Sequences, FiniteSets, TLC

\* ------------------------------------------------------------------ bounds
\* Depth at which the recursive read gives up (the interpreter's recursion
\* limit, scaled down).  An acyclic read of the stores below nests at most
\* one frame per node, so only a genuinely unbounded recursion reaches it.
MaxDepth == 8

\* Number of handler calls (write_*, read_builder) modelled per IO object, and
\* number of IO objects constructed on the path one after the other.
MaxCalls == 2
MaxObjects == 2

\* ------------------------------------------------------- module constants
ROOT_NAME == "root"
SPEC_LOC_ATTR == ".specloc"
DEFAULT_SPEC_LOC_DIR == "specifications"

\* ------------------------------------------------------------ vocabulary
NoBuilder == 0 - 1
NoPath == <<"<none>">>
NoExport == "<none>"

\* The file this IO object is bound to, another Zarr file on disk, and a
\* builder origin that is no directory (builder.source None or not a dir).
ThisFile == "this"
OtherFile == "other"
NoDir == "nodir"
\* the source of an IO object of another backend (an HDF5 file)
H5File == "h5"

B == [root |-> 0, g1 |-> 1, g2 |-> 2, d0 |-> 3, d1 |-> 4, d2 |-> 5, l0 |-> 6, l1 |-> 7]
StaticBuilders == {B.root, B.g1, B.g2, B.d0, B.d1, B.d2, B.l0, B.l1}
NumStatic == Cardinality(StaticBuilders)

VARIABLES
    bld,        \* the builder forest handed in by the model layer (never changed)
    mode,       \* self.__mode
    isOpen,     \* self.__file is not None
    store,      \* the nodes of ThisFile on disk: path -> node
    zmeta,      \* the consolidated metadata of ThisFile (.zmetadata), a snapshot
    written,    \* self._written_builders: the set of builder identities flagged
    built,      \* self.__built: <<file, path>> -> builder identity
    rb,         \* the Builder objects created by reads: identity -> builder
    nextId,     \* the next fresh builder identity
    dciq,       \* self.__dci_queue: "none" or a sequence of node paths
    calls,      \* number of handler calls made on this IO object
    objs,       \* number of IO objects constructed so far
    last        \* the last handler call: its name, arguments, outcome and event log

vars == <<bld, mode, isOpen, store, zmeta, written, built, rb, nextId, dciq, calls, objs, last>>

\* --------------------------------------------------------------- helpers
EmptyFn == [k \in {} |-> ""]
NoQueue == [init |-> FALSE, q |-> <<>>]
EmptyQueue == [init |-> TRUE, q |-> <<>>]

\* A fixed iteration order for dictionaries: attribute keys, and the child
\* builders of a group in insertion (identity) order.
AllKeys == <<".specloc", "a", "object_id", "r">>

RECURSIVE KeysFrom(_, _)
KeysFrom(S, i) ==
    IF i > Len(AllKeys) THEN <<>>
    ELSE (IF AllKeys[i] \in S THEN <<AllKeys[i]>> ELSE <<>>) \o KeysFrom(S, i + 1)
KeySeq(S) == KeysFrom(S, 1)

RECURSIVE IdsFrom(_, _, _)
IdsFrom(S, i, hi) ==
    IF i > hi THEN <<>>
    ELSE (IF i \in S THEN <<i>> ELSE <<>>) \o IdsFrom(S, i + 1, hi)
IdSeq(S) == IdsFrom(S, 0, NumStatic - 1)

Children(b, kind) == IdSeq({c \in StaticBuilders : bld[c].parent = b /\ bld[c].kind = kind})

Ev(e, p, k, b) == [e |-> e, p |-> p, k |-> k, b |-> b]
Emit(f, ev) == [f EXCEPT !.log = Append(@, ev)]
Raise(f, err) == [f EXCEPT !.status = err]

\* ---------------------------------------------------------- reference record
NoRef == [source |-> "", path |-> <<>>, object_id |-> "null", source_object_id |-> "null"]
AttrVal(v) == [tag |-> "val", v |-> v, ref |-> NoRef]
AttrRef(r) == [tag |-> "ref", v |-> "object", ref |-> r]

\* os.path.relpath(os.path.abspath(source), start=self.abspath)
RelPath(file) == IF file = ThisFile THEN "." ELSE "../" \o file
\* the absolute path of a store (zarr stores keep absolute paths)
AbsPath(file) == "/abs/" \o file
\* os.path.abspath(os.path.join(self.source, source_file)) in resolve_ref
ResolveSource(src) ==
    CASE src = "." -> ThisFile
      [] src = RelPath(OtherFile) -> OtherFile
      [] src = AbsPath(OtherFile) -> OtherFile
      [] src = AbsPath(ThisFile) -> ThisFile
      [] OTHER -> NoDir
\* os.path.isdir(builder.source)
IsDir(file) == file \in {ThisFile, OtherFile}

\* ------------------------------------------------------------- store nodes
GroupNode == [kind |-> "group", attrs |-> EmptyFn, zarr_link |-> <<>>, zarr_dtype |-> "",
              shape |-> <<>>, dtype |-> "", filled |-> FALSE, refs |-> <<>>]
ArrayNode(shape, dtype) ==
    [kind |-> "array", attrs |-> EmptyFn, zarr_link |-> <<>>, zarr_dtype |-> "",
     shape |-> shape, dtype |-> dtype, filled |-> FALSE, refs |-> <<>>]
EmptyStore == [p \in {<<>>} |-> GroupNode]
NoMeta == [p \in {} |-> GroupNode]

\* The other Zarr file on disk: a root group holding one group, one array
\* with its zarr_dtype and one array without (a file not made by ZarrIO).
OtherStore ==
    [p \in {<<>>, <<"og">>, <<"ext">>, <<"raw">>} |->
        CASE p = <<"ext">> ->
                [ArrayNode(<<2>>, "int32") EXCEPT !.zarr_dtype = "int32", !.filled = TRUE]
          [] p = <<"raw">> -> [ArrayNode(<<2>>, "int32") EXCEPT !.filled = TRUE]
          [] OTHER -> GroupNode]

PutNode(s, p, n) == [q \in DOMAIN s \cup {p} |-> IF q = p THEN n ELSE s[q]]
PutAttr(a, k, v) == [j \in DOMAIN a \cup {k} |-> IF j = k THEN v ELSE a[j]]

\* parent.require_group(name)
RequireGroup(f, p) ==
    IF f.status # "ok" THEN f
    ELSE IF f.ro THEN Raise(f, "ReadOnlyError")
    ELSE IF p \in DOMAIN f.store
         THEN (IF f.store[p].kind = "group" THEN f ELSE Raise(f, "ContainsArrayError"))
    ELSE Emit([f EXCEPT !.store = PutNode(@, p, GroupNode)], Ev("require_group", p, "", NoBuilder))

\* parent[name]
GetItem(f, p) ==
    IF f.status # "ok" THEN f
    ELSE IF p \in DOMAIN f.store THEN f ELSE Raise(f, "KeyError")

\* parent.require_dataset(name, shape=..., dtype=...)
RequireDataset(f, p, shape, dtype) ==
    IF f.status # "ok" THEN f
    ELSE IF f.ro THEN Raise(f, "ReadOnlyError")
    ELSE IF p \in DOMAIN f.store
         THEN (IF f.store[p].kind = "array" /\ f.store[p].shape = shape /\ f.store[p].dtype = dtype
               THEN f ELSE Raise(f, "TypeError"))
    ELSE Emit([f EXCEPT !.store = PutNode(@, p, ArrayNode(shape, dtype))],
              Ev("create_array", p, "", NoBuilder))

\* parent.create_dataset(name, ...): no overwrite
CreateDataset(f, p, shape, dtype) ==
    IF f.status # "ok" THEN f
    ELSE IF f.ro THEN Raise(f, "ReadOnlyError")
    ELSE IF p \in DOMAIN f.store THEN Raise(f, "Exception")
    ELSE Emit([f EXCEPT !.store = PutNode(@, p, ArrayNode(shape, dtype))],
              Ev("create_array", p, "", NoBuilder))

\* obj.attrs[key] = value
SetAttr(f, p, k, v) ==
    IF f.status # "ok" THEN f
    ELSE IF f.ro THEN Raise(f, "ReadOnlyError")
    ELSE Emit([f EXCEPT !.store[p].attrs = PutAttr(@, k, v)], Ev("attr", p, k, NoBuilder))

\* dset.attrs['zarr_dtype'] = type_str
SetZarrDtype(f, p, t) ==
    IF f.status # "ok" THEN f
    ELSE IF f.ro THEN Raise(f, "ReadOnlyError")
    ELSE Emit([f EXCEPT !.store[p].zarr_dtype = t], Ev("zarr_dtype", p, t, NoBuilder))

\* dset[...] = values
Fill(f, p, refs) ==
    IF f.status # "ok" THEN f
    ELSE IF f.ro THEN Raise(f, "ReadOnlyError")
    ELSE Emit([f EXCEPT !.store[p].filled = TRUE, !.store[p].refs = refs],
              Ev("fill", p, "", NoBuilder))

\* self._written_builders.set_written(builder)
SetWritten(f, b) ==
    IF f.status # "ok" THEN f
    ELSE Emit([f EXCEPT !.written = @ \cup {b}], Ev("set_written", <<>>, "", b))

\* --------------------------------------------------- paths and references
\* ZarrIO.__get_path: location + name when a location is set, else the names
\* of the parent chain up to (not including) the first builder named ROOT_NAME.
RECURSIVE PathNames(_)
PathNames(b) ==
    IF b = NoBuilder THEN <<>>
    ELSE IF bld[b].name = ROOT_NAME THEN <<>>
    ELSE PathNames(bld[b].parent) \o <<bld[b].name>>

GetPath(b) ==
    IF bld[b].hasloc THEN bld[b].location \o <<bld[b].name>> ELSE PathNames(b)

\* The walk "while curr is not None and curr.name != ROOT_NAME: curr = curr.parent"
RECURSIVE RootOf(_)
RootOf(b) ==
    IF b = NoBuilder THEN NoBuilder
    ELSE IF bld[b].name = ROOT_NAME THEN b
    ELSE RootOf(bld[b].parent)

\* builder.get('object_id', None): a GroupBuilder looks the key up among its
\* attributes; a DatasetBuilder is a plain dict without that key.
BuilderGet(b, key) ==
    IF bld[b].kind = "group" /\ key \in DOMAIN bld[b].attrs THEN bld[b].attrs[key].v ELSE "null"

\* ZarrIO.__get_ref
GetRefSourceExport(builder, export_source) ==
    LET source == IF bld[builder].source # NoDir /\ IsDir(bld[builder].source)
                  THEN bld[builder].source ELSE ThisFile
    IN IF export_source # NoExport THEN "." ELSE RelPath(source)

GetRef(ref_object, export_source) ==
    LET builder == IF bld[ref_object].kind = "link" THEN bld[ref_object].target ELSE ref_object
        curr == RootOf(builder)
    IN [source |-> GetRefSourceExport(builder, export_source),
        path |-> GetPath(builder),
        object_id |-> BuilderGet(builder, "object_id"),
        source_object_id |-> IF curr # NoBuilder THEN BuilderGet(curr, "object_id") ELSE "null"]

RECURSIVE GetRefs(_, _)
GetRefs(targets, export_source) ==
    IF targets = <<>> THEN <<>>
    ELSE <<GetRef(Head(targets), export_source)>> \o GetRefs(Tail(targets), export_source)

\* ZarrIO.__add_link__
\* an __add_link__ that puts the new entry in front of the list
AddLinkEntryFirst(links, target_source, target_path, link_name) ==
    <<[source |-> target_source, path |-> target_path, name |-> link_name]>> \o links

AddLinkEntry(links, target_source, target_path, link_name) ==
    Append(links, [source |-> target_source, path |-> target_path, name |-> link_name])

AddLink(f, parent, target_source, target_path, link_name) ==
    IF f.status # "ok" THEN f
    ELSE IF f.ro THEN Raise(f, "ReadOnlyError")
    ELSE Emit([f EXCEPT !.store[parent].zarr_link =
                            AddLinkEntry(@, target_source, target_path, link_name)],
              Ev("add_link", parent, link_name, NoBuilder))

\* ----------------------------------------------------------- write engine
\* ZarrIO.write_attributes
WriteAttribute(f, obj, key, value, export_source) ==
    IF value.tag = "ref"
    THEN SetAttr(f, obj, key, AttrRef(GetRef(value.t, export_source)))
    ELSE SetAttr(f, obj, key, AttrVal(value.v))

RECURSIVE WriteAttributesLoop(_, _, _, _, _)
WriteAttributesLoop(f, obj, attributes, keys, export_source) ==
    IF keys = <<>> \/ f.status # "ok" THEN f
    ELSE WriteAttributesLoop(
            WriteAttribute(f, obj, Head(keys), attributes[Head(keys)], export_source),
            obj, attributes, Tail(keys), export_source)

WriteAttributes(f, obj, attributes, export_source) ==
    WriteAttributesLoop(f, obj, attributes, KeySeq(DOMAIN attributes), export_source)

\* ZarrIO.write_link.  The block that would copy a target of a non-Zarr source
\* in place of the link, with its guarded __add_link__, sits inside a string
\* literal and is never executed: the body is __get_ref, the fix of the source,
\* one __add_link__ and the written flag.
WriteLinkSource(builder, zarr_ref) ==
    IF bld[builder].source = bld[bld[builder].target].source THEN "." ELSE zarr_ref.source

\* the append of the entry <<source, path, name>> to the parent's zarr_link
WriteLinkEntry(f, parent, builder, zarr_ref) ==
    AddLink(f, parent, WriteLinkSource(builder, zarr_ref), zarr_ref.path, bld[builder].name)

\* write_link without the test of the written flag
WriteLinkUnchecked(f, parent, builder) ==
    IF f.status # "ok" THEN f
    ELSE SetWritten(
            WriteLinkEntry(f, parent, builder, GetRef(bld[builder].target, NoExport)),
            builder)

WriteLink(f, parent, builder) ==
    IF f.status # "ok" THEN f
    ELSE IF builder \in f.written THEN f
    ELSE SetWritten(
            WriteLinkEntry(f, parent, builder, GetRef(bld[builder].target, NoExport)),
            builder)

\* ZarrIODataChunkIteratorQueue.append / exhaust_queue on self.__dci_queue
Enqueue(f, dset, builder) ==
    IF f.status # "ok" THEN f
    ELSE IF ~f.dciq.init THEN Raise(f, "AttributeError")
    ELSE Emit([f EXCEPT !.dciq.q = Append(@, dset)], Ev("enqueue", dset, "", builder))

RECURSIVE DrainAll(_, _)
DrainAll(s, q) ==
    IF q = <<>> THEN s
    ELSE DrainAll([s EXCEPT ![Head(q)].filled = TRUE], Tail(q))

ExhaustQueue(f) ==
    IF f.status # "ok" THEN f
    ELSE IF ~f.dciq.init THEN Raise(f, "AttributeError")
    ELSE Emit([f EXCEPT !.store = DrainAll(@, f.dciq.q), !.dciq.q = <<>>],
              Ev("drain", <<>>, "", NoBuilder))

\* ZarrIO.__dtypes: the table from symbolic names to storage types
Dtypes ==
    ("float" :> "float32") @@ ("float32" :> "float32") @@ ("double" :> "float64")
        @@ ("float64" :> "float64") @@ ("long" :> "int64") @@ ("int64" :> "int64")
        @@ ("uint64" :> "uint64") @@ ("int" :> "int32") @@ ("int32" :> "int32")
        @@ ("int16" :> "int16") @@ ("int8" :> "int8") @@ ("bool" :> "bool_")
        @@ ("bool_" :> "bool_") @@ ("text" :> "str") @@ ("utf" :> "str") @@ ("utf8" :> "str")
        @@ ("utf-8" :> "str") @@ ("ascii" :> "bytes") @@ ("bytes" :> "bytes") @@ ("str" :> "str")
        @@ ("isodatetime" :> "str") @@ ("string_" :> "bytes") @@ ("uint32" :> "uint32")
        @@ ("uint16" :> "uint16") @@ ("uint8" :> "uint8") @@ ("ref" :> "ZarrReference")
        @@ ("reference" :> "ZarrReference") @@ ("object" :> "ZarrReference")
        @@ ("region" :> "ZarrReference")

\* A storage type: a scalar type by its name, or a compound of named fields.
\* NoneType is Python's None, what dict.get gives for a missing key.
ScalarType(name) == [name |-> name, fields |-> <<>>]
CompoundType(fields) == [name |-> "compound", fields |-> fields]
NoneType == ScalarType("None")
Resolved(t) == [status |-> "ok", t |-> t]

\* np.dtype([(name, type), ...]): numpy reads a field type of None as float64
NumpyFieldType(t) == IF t = NoneType THEN ScalarType("float64") ELSE t

\* ZarrIO.__resolve_dtype_helper__ on a descriptor: unset, a concrete type, a
\* symbolic name, a reference descriptor (by its reftype), a list of fields,
\* or anything else
RECURSIVE ResolveDtypeHelper(_)
RECURSIVE ResolveFields(_, _)
ResolveFields(fields, done) ==
    IF fields = <<>> THEN Resolved(CompoundType(done))
    ELSE IF ResolveDtypeHelper(Head(fields).dtype).status # "ok"
         THEN ResolveDtypeHelper(Head(fields).dtype)
    ELSE ResolveFields(Tail(fields),
                       Append(done, [name |-> Head(fields).name,
                                     t |-> NumpyFieldType(ResolveDtypeHelper(Head(fields).dtype).t)]))

ResolveDtypeHelper(dtype) ==
    CASE dtype.form = "none" -> Resolved(NoneType)
      [] dtype.form = "type" -> Resolved(ScalarType(dtype.name))
      [] dtype.form \in {"name", "ref"} ->
            Resolved(IF dtype.name \in DOMAIN Dtypes THEN ScalarType(Dtypes[dtype.name])
                     ELSE NoneType)
      [] dtype.form = "list" -> ResolveFields(dtype.fields, <<>>)
      [] OTHER -> [status |-> "ValueError", t |-> NoneType]

\* ZarrIO.get_type: the type of the first scalar of the data; empty data has none
GetType(data) ==
    IF data.shape = <<0>> THEN [status |-> "ValueError", t |-> NoneType]
    ELSE Resolved(IF data.dtype \in DOMAIN Dtypes THEN ScalarType(Dtypes[data.dtype])
                  ELSE ScalarType(data.dtype))

\* ZarrIO.__resolve_dtype__: the helper's type, and the type of the data when
\* the helper gives None
OrGetType(r, data) == IF r.status = "ok" /\ r.t = NoneType THEN GetType(data) ELSE r
ResolveDtypeType(dtype, data) == OrGetType(ResolveDtypeHelper(dtype), data)

\* ZarrIO.__serial_dtype__ of a scalar type: its name, 'object' for a reference
SerialDtype(t) == IF t.name = "ZarrReference" THEN "object" ELSE t.name

\* the name of the type __resolve_dtype__ gives
ResolveDtype(dtype, data) == SerialDtype(ResolveDtypeType(dtype, data).t)

\* ZarrIO.__scalar_fill__: the node is filled before it is tagged
ScalarFill(f, dset, data, dtype) ==
    SetZarrDtype(Fill(RequireDataset(f, dset, <<1>>, ResolveDtype(dtype, data)), dset, <<>>),
                 dset, "scalar")

\* ZarrIO.__list_fill__: the node is tagged before it is filled
ListFill(f, dset, data, dtype) ==
    Fill(SetZarrDtype(RequireDataset(f, dset, data.shape, ResolveDtype(dtype, data)),
                      dset, ResolveDtype(dtype, data)),
         dset, <<>>)

\* ZarrIO.__setup_chunked_dataset__: shape and dtype as the producer declares
\* them (options['dtype'] of the builder first, else data.dtype)
\* a chunked setup that loses the declared shape
SetupChunkedDatasetFlat(f, dset, data, dtype) ==
    SetZarrDtype(CreateDataset(f, dset, <<>>, ResolveDtype(dtype, data)),
                 dset, ResolveDtype(dtype, data))

SetupChunkedDataset(f, dset, data, dtype) ==
    SetZarrDtype(CreateDataset(f, dset, data.shape, ResolveDtype(dtype, data)),
                 dset, ResolveDtype(dtype, data))

\* write_dataset, data is a zarr Array of another store: link or copy
WriteArrayData(f, parent, dset, name, data, link_data) ==
    IF link_data
    THEN AddLink(f, parent, AbsPath(OtherFile), data.path, name)
    ELSE Fill(SetZarrDtype(RequireDataset(f, dset, data.shape, data.dtype),
                           dset, OtherStore[data.path].zarr_dtype),
              dset, <<>>)

\* write_dataset, compound dtype with at least one reference field: the
\* builder is flagged first, then the rows are gathered and the node created
WriteCompoundRefs(f, dset, builder, data, export_source) ==
    Fill(SetZarrDtype(RequireDataset(SetWritten(f, builder), dset,
                                     <<Len(GetRefs(data.targets, export_source))>>, "compound"),
                      dset, "compound:object"),
         dset, GetRefs(data.targets, export_source))

\* write_dataset, reference dtype: the builder is flagged once the node exists
WriteRefs(f, dset, builder, data, export_source) ==
    Fill(SetZarrDtype(SetWritten(RequireDataset(f, dset,
                                                <<Len(GetRefs(data.targets, export_source))>>,
                                                "object"),
                                 builder),
                      dset, "object"),
         dset, GetRefs(data.targets, export_source))

\* write_dataset, an HDMFDataset of Containers: one reference per container,
\* the builder is flagged once the node is tagged and filled
WriteContainers(f, dset, builder, data, export_source) ==
    SetWritten(
        Fill(SetZarrDtype(RequireDataset(f, dset, <<Len(GetRefs(data.targets, export_source))>>,
                                         "object"),
                          dset, "object"),
             dset, GetRefs(data.targets, export_source)),
        builder)

\* data[:] of an HDMFDataset: the values, loaded
LoadedData(data) == [data EXCEPT !.kind = "list"]

RECURSIVE WriteDatasetForce(_, _, _, _, _, _, _)

\* The dispatch of write_dataset on the shape of the value.  Any other
\* HDMFDataset is loaded and handed to write_dataset itself as force_data,
\* with no exhaust_dci (so its default, True); the builder is flagged again
\* when that call returns.
WriteDatasetBody(f, parent, dset, builder, data, link_data, export_source) ==
    CASE data.kind = "array" ->
            WriteArrayData(f, parent, dset, bld[builder].name, data, link_data)
      [] data.kind = "hdmf_containers" -> WriteContainers(f, dset, builder, data, export_source)
      [] data.kind = "hdmf" ->
            SetWritten(WriteDatasetForce(f, parent, builder, link_data, TRUE, export_source,
                                         LoadedData(data)),
                       builder)
      [] data.kind = "compound_ref" -> WriteCompoundRefs(f, dset, builder, data, export_source)
      [] data.kind = "refs" -> WriteRefs(f, dset, builder, data, export_source)
      [] data.kind = "str" -> ScalarFill(f, dset, data, bld[builder].dtype)
      [] data.kind = "dci" ->
            Enqueue(SetupChunkedDataset(f, dset, data, bld[builder].dtype), dset, builder)
      [] data.kind = "list" -> ListFill(f, dset, data, bld[builder].dtype)
      [] OTHER -> ScalarFill(f, dset, data, bld[builder].dtype)

\* ZarrIO.write_dataset: the queue is created on demand, a builder flagged
\* written is skipped; else the value (builder.data, or force_data when given)
\* is written, then the attributes (not for a link), the flag, and the drain
\* of the queue when asked for
InitQueue(f, exhaust_dci) ==
    IF exhaust_dci /\ ~f.dciq.init THEN [f EXCEPT !.dciq = EmptyQueue] ELSE f

\* a DataIO wrapper carries its own link_data
\* a link_data that is the argument of the call whatever the wrapper says
LinkDataArg(data, link_data) == link_data

LinkDataOf(data, link_data) == IF data.wrapped THEN data.wlink ELSE link_data

Linked(data, link_data) == data.kind = "array" /\ LinkDataOf(data, link_data)

WriteDatasetAttributes(f, dset, builder, linked) ==
    IF ~linked THEN WriteAttributes(f, dset, bld[builder].attrs, NoExport) ELSE f

ExhaustIf(f, exhaust_dci) == IF exhaust_dci THEN ExhaustQueue(f) ELSE f

WriteDatasetTail(f, dset, builder, linked, exhaust_dci) ==
    ExhaustIf(SetWritten(WriteDatasetAttributes(f, dset, builder, linked), builder), exhaust_dci)

WriteDatasetNew(f, parent, builder, data, link_data, exhaust_dci, export_source) ==
    IF builder \in f.written THEN f
    ELSE WriteDatasetTail(
            WriteDatasetBody(f, parent, parent \o <<bld[builder].name>>, builder,
                             data, LinkDataOf(data, link_data), export_source),
            parent \o <<bld[builder].name>>, builder, Linked(data, link_data), exhaust_dci)

WriteDatasetForce(f, parent, builder, link_data, exhaust_dci, export_source, force_data) ==
    IF f.status # "ok" THEN f
    ELSE WriteDatasetNew(InitQueue(f, exhaust_dci), parent, builder, force_data, link_data,
                         exhaust_dci, export_source)

WriteDataset(f, parent, builder, link_data, exhaust_dci, export_source) ==
    WriteDatasetForce(f, parent, builder, link_data, exhaust_dci, export_source,
                      bld[builder].data)

RECURSIVE WriteDatasets(_, _, _, _, _, _)
WriteDatasets(f, parent, builders, link_data, exhaust_dci, export_source) ==
    IF builders = <<>> \/ f.status # "ok" THEN f
    ELSE WriteDatasets(
            WriteDataset(f, parent, Head(builders), link_data, exhaust_dci, export_source),
            parent, Tail(builders), link_data, exhaust_dci, export_source)

RECURSIVE WriteLinks(_, _, _)
WriteLinks(f, parent, builders) ==
    IF builders = <<>> \/ f.status # "ok" THEN f
    ELSE WriteLinks(WriteLink(f, parent, Head(builders)), parent, Tail(builders))

\* ZarrIO.write_group: the recursion into the subgroups passes no
\* export_source, and the attributes are written on every call
RECURSIVE WriteGroup(_, _, _, _, _, _)
RECURSIVE WriteGroups(_, _, _, _, _, _)

WriteGroupNode(f, group, builder) ==
    IF builder \in f.written THEN GetItem(f, group) ELSE RequireGroup(f, group)

WriteGroupAttributes(f, group, builder) ==
    WriteAttributes(f, group, bld[builder].attrs, NoExport)

SubgroupExportSource(export_source) == NoExport

WriteGroup(f, parent, builder, link_data, exhaust_dci, export_source) ==
    IF f.status # "ok" THEN f
    ELSE SetWritten(
            WriteGroupAttributes(
                WriteLinks(
                    WriteDatasets(
                        WriteGroups(
                            WriteGroupNode(f, parent \o <<bld[builder].name>>, builder),
                            parent \o <<bld[builder].name>>, Children(builder, "group"),
                            link_data, exhaust_dci, SubgroupExportSource(export_source)),
                        parent \o <<bld[builder].name>>, Children(builder, "dataset"),
                        link_data, exhaust_dci, export_source),
                    parent \o <<bld[builder].name>>, Children(builder, "link")),
                parent \o <<bld[builder].name>>, builder),
            builder)

WriteGroups(f, parent, builders, link_data, exhaust_dci, export_source) ==
    IF builders = <<>> \/ f.status # "ok" THEN f
    ELSE WriteGroups(
            WriteGroup(f, parent, Head(builders), link_data, exhaust_dci, export_source),
            parent, Tail(builders), link_data, exhaust_dci, export_source)

\* zarr.consolidate_metadata(store=self.path): .zmetadata := the metadata now
Consolidate(f, consolidate_metadata) ==
    IF f.status # "ok" \/ ~consolidate_metadata THEN f
    ELSE Emit([f EXCEPT !.zmeta = f.store], Ev("consolidate", <<>>, "", NoBuilder))

\* ZarrIO.write_builder: the subgroups of the root, its datasets, its
\* attributes, the drain of the queue, the flag of the root, the consolidation
\* write_builder without the drain of the queue before the root is flagged
WriteBuilderNoDrain(f, f_builder, link_data, exhaust_dci, export_source, consolidate_metadata) ==
    Consolidate(
        SetWritten(
            WriteAttributes(
                WriteDatasets(
                    WriteGroups(f, <<>>, Children(f_builder, "group"), link_data,
                                exhaust_dci, export_source),
                    <<>>, Children(f_builder, "dataset"), link_data, exhaust_dci,
                    export_source),
                <<>>, bld[f_builder].attrs, NoExport),
            f_builder),
        consolidate_metadata)

WriteBuilder(f, f_builder, link_data, exhaust_dci, export_source, consolidate_metadata) ==
    Consolidate(
        SetWritten(
            ExhaustQueue(
                WriteAttributes(
                    WriteDatasets(
                        WriteGroups(f, <<>>, Children(f_builder, "group"), link_data,
                                    exhaust_dci, export_source),
                        <<>>, Children(f_builder, "dataset"), link_data, exhaust_dci,
                        export_source),
                    <<>>, bld[f_builder].attrs, NoExport)),
            f_builder),
        consolidate_metadata)

\* ZarrIO.__cache_spec: the group named by the root's SPEC_LOC_ATTR, else
\* DEFAULT_SPEC_LOC_DIR, receives one group per namespace of the catalog (a
\* single unversioned namespace "core" here)
CacheSpecGroup(f) ==
    IF f.status # "ok" THEN f
    ELSE IF SPEC_LOC_ATTR \in DOMAIN f.store[<<>>].attrs
         THEN GetItem(f, <<f.store[<<>>].attrs[SPEC_LOC_ATTR].v>>)
    ELSE SetAttr(RequireGroup(f, <<DEFAULT_SPEC_LOC_DIR>>), <<>>, SPEC_LOC_ATTR,
                 AttrVal(DEFAULT_SPEC_LOC_DIR))

SpecGroup(f) == <<f.store[<<>>].attrs[SPEC_LOC_ATTR].v>>

CacheSpecNamespaces(f) ==
    IF f.status # "ok" THEN f
    ELSE RequireGroup(RequireGroup(f, SpecGroup(f) \o <<"core">>),
                      SpecGroup(f) \o <<"core", "unversioned">>)

CacheSpec(f) == CacheSpecNamespaces(CacheSpecGroup(f))

CacheSpecIf(f, cache_spec) == IF cache_spec THEN CacheSpec(f) ELSE f

\* ZarrIO.write: a new queue, HDMFIO.write (build, then write_builder), then
\* the specification cache
Write(f, f_builder, link_data, exhaust_dci, consolidate_metadata, cache_spec) ==
    CacheSpecIf(WriteBuilder([f EXCEPT !.dciq = EmptyQueue], f_builder, link_data, exhaust_dci,
                             NoExport, consolidate_metadata),
                cache_spec)

\* ZarrIO.export: mode 'w' only; a new queue; a source IO of another backend
\* only with link_data False; HDMFIO.export (write_builder with
\* export_source = src_io.source), then the specification cache
\* an export that takes any source IO whatever link_data is
ExportAnySource(f, m, f_builder, src_io, link_data, exhaust_dci, cache_spec) ==
    IF m # "w" THEN Raise(f, "UnsupportedOperation")
    ELSE CacheSpecIf(WriteBuilder([f EXCEPT !.dciq = EmptyQueue], f_builder, link_data,
                                  exhaust_dci, src_io, TRUE),
                     cache_spec)

Export(f, m, f_builder, src_io, link_data, exhaust_dci, cache_spec) ==
    IF m # "w" THEN Raise(f, "UnsupportedOperation")
    ELSE IF src_io = H5File /\ link_data
         THEN Raise([f EXCEPT !.dciq = EmptyQueue], "UnsupportedOperation")
    ELSE CacheSpecIf(WriteBuilder([f EXCEPT !.dciq = EmptyQueue], f_builder, link_data,
                                  exhaust_dci, src_io, TRUE),
                     cache_spec)

\* ------------------------------------------------------------ read engine
\* zarr lists the children of a group sorted by name
NameOrder ==
    <<"core", "d0", "d1", "d2", "ext", "g1", "g2", "og", "raw", "specifications", "unversioned">>

Front(p) == SubSeq(p, 1, Len(p) - 1)

\* What opening a file shows: the consolidated metadata when the open goes
\* through it and it exists, else the nodes themselves.
Nodes(file) == IF file = ThisFile THEN store ELSE IF file = OtherFile THEN OtherStore ELSE NoMeta
Meta(file) == IF file = ThisFile THEN zmeta ELSE NoMeta
View(file, cons) == IF cons /\ Meta(file) # NoMeta THEN Meta(file) ELSE Nodes(file)

RECURSIVE ChildNames(_, _, _, _)
ChildNames(view, p, kind, i) ==
    IF i > Len(NameOrder) THEN <<>>
    ELSE (IF p \o <<NameOrder[i]>> \in DOMAIN view /\ view[p \o <<NameOrder[i]>>].kind = kind
          THEN <<NameOrder[i]>> ELSE <<>>) \o ChildNames(view, p, kind, i + 1)

\* A zarr object: the file it lives in, its path, and whether its store is
\* the consolidated view
Obj(file, path, cons) == [file |-> file, path |-> path, cons |-> cons]
ObjNode(o) == View(o.file, o.cons)[o.path]
\* the key of ZarrIO.__set_built / __get_built: store path joined with object path
BuiltKey(o) == <<o.file, o.path>>

\* ZarrIO.get_zarr_parent_path
ZarrParentPath(o) == IF o.path = <<>> THEN <<>> ELSE Front(o.path)

RBuilder(kind, name, o, attrs, dtype, target) ==
    [kind |-> kind, name |-> name, source |-> ThisFile, location |-> ZarrParentPath(o),
     node |-> BuiltKey(o),
     attrs |-> attrs, groups |-> <<>>, datasets |-> <<>>, links |-> <<>>,
     dtype |-> dtype, target |-> target]

\* LinkBuilder(builder=..., name=..., source=self.source) with
\* location = os.path.join(parent.location, parent.name); it stands for no node
LinkRBuilder(name, parent, target) ==
    [kind |-> "link", name |-> name, source |-> ThisFile,
     location |-> parent.location \o <<parent.name>>, node |-> <<NoDir, <<>>>>,
     attrs |-> EmptyFn, groups |-> <<>>, datasets |-> <<>>, links |-> <<>>,
     dtype |-> "", target |-> target]

RVal(v) == [tag |-> "val", v |-> v, t |-> NoBuilder]
RBuilt(t) == [tag |-> "builder", v |-> "object", t |-> t]

\* ZarrIO.__get_built / __set_built (dict.setdefault)
\* a cache lookup that never finds the builder
GetBuiltMiss(f, o) == NoBuilder

GetBuilt(f, o) == IF BuiltKey(o) \in DOMAIN f.built THEN f.built[BuiltKey(o)] ELSE NoBuilder

\* a __set_built that registers nothing
SetBuiltNever(f, o, id) == f

SetBuilt(f, o, id) ==
    IF BuiltKey(o) \in DOMAIN f.built THEN f
    ELSE [f EXCEPT !.built = [k \in DOMAIN f.built \cup {BuiltKey(o)} |->
                                 IF k = BuiltKey(o) THEN id ELSE f.built[k]]]

\* A new Builder object
NewBuilder(f, r) ==
    [f EXCEPT !.rb = [i \in DOMAIN f.rb \cup {f.nextId} |-> IF i = f.nextId THEN r ELSE f.rb[i]],
              !.nextId = @ + 1, !.ret = f.nextId]

\* ZarrIO.resolve_ref: the target's name and the target object, opened through
\* consolidated metadata when the source file has it
TargetName(object_path) == IF object_path = <<>> THEN "" ELSE object_path[Len(object_path)]
ResolveTarget(zarr_ref) == Obj(ResolveSource(zarr_ref.source), zarr_ref.path, TRUE)
ResolveOk(zarr_ref) ==
    LET o == ResolveTarget(zarr_ref)
    IN Nodes(o.file) # NoMeta /\ o.path \in DOMAIN View(o.file, o.cons)

\* ZarrIO.__open_file_consolidated: mode 'r-' is rejected; else
\* zarr.open_consolidated, and zarr.open when there is no .zmetadata (KeyError)
OpenFileConsolidated(file, m) ==
    IF m = "r-" THEN "ValueError"
    ELSE IF Meta(file) # NoMeta THEN "open_consolidated" ELSE "open"

\* how ZarrIO.open opens the file: zarr.open for every mode but 'r' ('r-' is
\* handed to zarr as 'r'), __open_file_consolidated for 'r'
OpenHow(m) == IF m # "r" THEN "open" ELSE OpenFileConsolidated(ThisFile, m)
ModeToUse(m) == IF m # "r-" THEN m ELSE "r"

\* resolve_ref opens the source file of the reference:
\* self.__open_file_consolidated(store=source_file, mode='r', ...)
ResolveRefOpen(f, zarr_ref) ==
    Emit(f, Ev(OpenFileConsolidated(ResolveSource(zarr_ref.source), "r"),
               <<ResolveSource(zarr_ref.source)>>, "r", NoBuilder))

\* resolve_ref on a path that the target file does not hold:
\* raise ValueError("Found bad link to object ... in file ...")
\* a resolve_ref that passes over a bad link
BadLinkSkipped(f, zarr_ref) == f

BadLink(f, zarr_ref) == Raise(f, "ValueError")

\* GroupBuilder.set_link: the links of a group are a dict keyed by name
SetLink(builders, links, id) ==
    IF \E i \in 1..Len(links) : builders[links[i]].name = builders[id].name
    THEN [i \in 1..Len(links) |->
             IF builders[links[i]].name = builders[id].name THEN id ELSE links[i]]
    ELSE Append(links, id)

\* The reads one node asks for, in the order of the code: __read_attrs goes
\* through the attributes; __read_group then goes through the sub groups, the
\* sub datasets and the entries of zarr_link (__read_links).
Item(kind, name, v) == [kind |-> kind, name |-> name, v |-> v]
AttrItems(o) ==
    LET keys == KeySeq(DOMAIN ObjNode(o).attrs)
    IN [i \in 1..Len(keys) |-> Item("attr", keys[i], ObjNode(o).attrs[keys[i]])]
NamedItems(kind, names) == [i \in 1..Len(names) |-> Item(kind, names[i], AttrVal(""))]
LinkItems(links) ==
    [i \in 1..Len(links) |->
        Item("link", links[i].name,
             AttrRef([NoRef EXCEPT !.source = links[i].source, !.path = links[i].path]))]
ChildItems(o) ==
    IF ObjNode(o).kind # "group" THEN <<>>
    ELSE NamedItems("group", ChildNames(View(o.file, o.cons), o.path, "group", 1))
            \o NamedItems("dataset", ChildNames(View(o.file, o.cons), o.path, "array", 1))
            \o LinkItems(ObjNode(o).zarr_link)

\* what an item does once its target, if it has one, has been read (f.ret):
\* ret[k] = ..., ret.set_group, ret.set_dataset, or a new LinkBuilder that is
\* flagged written and set on the parent
AddLinkBuilder(f, parent) ==
    [f EXCEPT !.written = @ \cup {f.ret}, !.rb[parent].links = SetLink(f.rb, @, f.ret)]

ApplyItem(f, acc, parent, it) ==
    IF f.status # "ok" THEN f
    ELSE CASE it.kind = "attr" ->
                [f EXCEPT !.attrs = PutAttr(acc, it.name,
                                            IF it.v.tag = "ref" THEN RBuilt(f.ret) ELSE RVal(it.v.v))]
           [] it.kind = "group" -> [f EXCEPT !.rb[parent].groups = Append(@, f.ret)]
           [] it.kind = "dataset" -> [f EXCEPT !.rb[parent].datasets = Append(@, f.ret)]
           [] OTHER -> AddLinkBuilder(NewBuilder(f, LinkRBuilder(it.name, f.rb[parent], f.ret)),
                                      parent)

\* ZarrIO.__read_dataset: zarr_dtype, else the dtype of the array with a warning
\* a dtype taken from the zarr_dtype attribute alone
ReadDatasetDtypeTagOnly(node) == node.zarr_dtype

ReadDatasetDtype(node) == IF node.zarr_dtype # "" THEN node.zarr_dtype ELSE node.dtype

\* warnings.warn("Inferred dtype from zarr type. Dataset missing zarr_dtype: ...")
WarnMissingDtype(f, o) ==
    IF ObjNode(o).kind = "array" /\ ObjNode(o).zarr_dtype = ""
    THEN Emit(f, Ev("warn", o.path, o.file, NoBuilder))
    ELSE f

\* whether an item names a child node, and whether it leads to a read at all
\* (a child, a link, or an attribute holding a reference)
IsChild(it) == it.kind \in {"group", "dataset"}
Reads(it) == it.kind # "attr" \/ it.v.tag = "ref"
ItemTarget(o, it) ==
    IF IsChild(it) THEN Obj(o.file, o.path \o <<it.name>>, o.cons) ELSE ResolveTarget(it.v.ref)
ItemTargetName(it) == IF IsChild(it) THEN it.name ELSE TargetName(it.v.ref.path)

\* the Builder object of a node whose attributes have been read (f.attrs)
NewObjectBuilder(f, o, name) ==
    IF f.status # "ok" THEN f
    ELSE NewBuilder(f, IF ObjNode(o).kind = "group"
                       THEN RBuilder("group", name, o, f.attrs, "", NoBuilder)
                       ELSE RBuilder("dataset", name, o, f.attrs,
                                     ReadDatasetDtype(ObjNode(o)), NoBuilder))

\* ret.written = True; self.__set_built(...); return ret
FinishObject(f, o, id) ==
    IF f.status # "ok" THEN f
    ELSE [SetBuilt([f EXCEPT !.written = @ \cup {id}], o, id) EXCEPT !.ret = id]

RECURSIVE ReadObject(_, _, _, _)
RECURSIVE ReadItems(_, _, _, _, _)

\* ZarrIO.__read_attrs and the loops of __read_group and __read_links: a child
\* is read as what it is, the target of a reference attribute or of a link is
\* resolved (resolve_ref) and read as a group or as a dataset
ReadItems(f, o, parent, items, depth) ==
    IF f.status # "ok" \/ items = <<>> THEN f
    ELSE ReadItems(
            ApplyItem(
                IF ~Reads(Head(items)) THEN f
                ELSE IF ~IsChild(Head(items)) /\ ~ResolveOk(Head(items).v.ref)
                     THEN BadLink(ResolveRefOpen(f, Head(items).v.ref), Head(items).v.ref)
                ELSE ReadObject(IF IsChild(Head(items)) THEN f
                                ELSE ResolveRefOpen(f, Head(items).v.ref),
                                ItemTarget(o, Head(items)), ItemTargetName(Head(items)), depth),
                f.attrs, parent, Head(items)),
            o, parent, Tail(items), depth)

\* the children and links of the node whose new builder is f.ret, then the
\* written flag and the entry in the cache
ReadChildren(f, o, depth) ==
    IF f.status # "ok" THEN f
    ELSE FinishObject(ReadItems(f, o, f.ret, ChildItems(o), depth + 1), o, f.ret)

\* ZarrIO.__read_group and ZarrIO.__read_dataset: the cached builder if there
\* is one; else the attributes, the new builder, for a group its children and
\* links, and only then the written flag and the entry in the cache
ReadObject(f, o, name, depth) ==
    IF f.status # "ok" THEN f
    ELSE IF depth > MaxDepth THEN Raise(f, "RecursionError")
    ELSE IF GetBuilt(f, o) # NoBuilder THEN [f EXCEPT !.ret = GetBuilt(f, o)]
    ELSE ReadChildren(
            NewObjectBuilder(
                ReadItems(WarnMissingDtype([f EXCEPT !.attrs = EmptyFn], o), o, NoBuilder,
                          AttrItems(o), depth + 1),
                o, name),
            o, depth)

\* ZarrIO.read_builder: self.__file is the consolidated view in mode 'r' only
ReadBuilder(f) == ReadObject(f, Obj(ThisFile, <<>>, mode = "r"), ROOT_NAME, 0)

\* ------------------------------------------------------ the builder forest
NoData == [kind |-> "none", shape |-> <<>>, dtype |-> "", targets |-> <<>>,
           wrapped |-> FALSE, wlink |-> FALSE, path |-> <<>>]
NoDtype == [form |-> "none", name |-> ""]
BVal(v) == [tag |-> "val", v |-> v, t |-> NoBuilder]
BRef(t) == [tag |-> "ref", v |-> "object", t |-> t]

Builder(kind, name, parent, source, attrs, data, dtype, target) ==
    [kind |-> kind, name |-> name, parent |-> parent, source |-> source,
     hasloc |-> FALSE, location |-> <<>>, attrs |-> attrs, data |-> data,
     dtype |-> dtype, target |-> target]

StrData == [NoData EXCEPT !.kind = "str", !.dtype = "str", !.shape = <<1>>]
ListData == [NoData EXCEPT !.kind = "list", !.dtype = "int32", !.shape = <<3>>]
DciData == [NoData EXCEPT !.kind = "dci", !.dtype = "float64", !.shape = <<4, 2>>]
RefsData(ts) == [NoData EXCEPT !.kind = "refs", !.dtype = "object", !.targets = ts]
CompoundRefData(ts) == [NoData EXCEPT !.kind = "compound_ref", !.dtype = "compound", !.targets = ts]
ArrayData == [NoData EXCEPT !.kind = "array", !.dtype = "int32", !.shape = <<2>>, !.path = <<"ext">>]
RawArrayData == [ArrayData EXCEPT !.path = <<"raw">>]
\* ZarrDataIO(data=..., link_data=...)
Wrapped(data, link_data) == [data EXCEPT !.wrapped = TRUE, !.wlink = link_data]
\* values of another backend: an HDMFDataset of numbers, and one of Containers
HdmfData == [NoData EXCEPT !.kind = "hdmf", !.dtype = "int32", !.shape = <<3>>]
ContainersData(ts) == [NoData EXCEPT !.kind = "hdmf_containers", !.dtype = "object", !.targets = ts]

\* The forests differ in the datasets' values and the builders' origin, and in
\* where the links point.  The root, g1, g2 and d1 carry an object_id among
\* their attributes, as the builders of containers do.
\* <<data of d0, d1, d2, attributes of the root, origin file of every builder,
\*   attributes of d2>>: d2 lives in g2 inside g1, so its reference to g1 is a
\* reference to an ancestor.
DataVariants ==
    {<<StrData, DciData, RefsData(<<B.g1, B.d1>>), [k \in {"a"} |-> BVal("1")], ThisFile,
       [k \in {"r"} |-> BRef(B.d1)]>>,
     <<DciData, ListData, CompoundRefData(<<B.g1>>), [k \in {"r"} |-> BRef(B.g2)], OtherFile,
       [k \in {"r"} |-> BRef(B.g1)]>>,
     <<ArrayData, RawArrayData, RefsData(<<B.g2>>), [k \in {"r"} |-> BRef(B.g2)], ThisFile,
       [k \in {"a"} |-> BVal("4")]>>,
     <<CompoundRefData(<<B.g1>>), ListData, RefsData(<<B.d1>>), [k \in {"a"} |-> BVal("1")], ThisFile,
       [k \in {"r"} |-> BRef(B.g1)]>>,
     <<ContainersData(<<B.g1>>), HdmfData, DciData, [k \in {"a"} |-> BVal("1")], ThisFile,
       [k \in {"a"} |-> BVal("4")]>>,
     <<Wrapped(ArrayData, TRUE), Wrapped(ArrayData, FALSE), RefsData(<<B.g2>>),
       [k \in {"a"} |-> BVal("1")], ThisFile, [k \in {"a"} |-> BVal("4")]>>}
\* <<parent of l0, target of l1>>: l1 lives in g1, so a target of root is a
\* link to an ancestor of its own group.
LinkVariants == {<<NoBuilder, B.g2>>, <<B.root, B.g2>>, <<B.root, B.d0>>, <<NoBuilder, B.root>>}

Forest(ra, d0, d1, d2, l0p, l1t, src, d2a) ==
    [b \in StaticBuilders |->
        CASE b = B.root -> Builder("group", ROOT_NAME, NoBuilder, src,
                                   PutAttr(ra, "object_id", BVal("id-root")),
                                   NoData, NoDtype, NoBuilder)
          [] b = B.g1 -> Builder("group", "g1", B.root, src,
                                 PutAttr([k \in {"a"} |-> BVal("2")], "object_id", BVal("id-g1")),
                                 NoData, NoDtype, NoBuilder)
          [] b = B.g2 -> Builder("group", "g2", B.g1, src,
                                 [k \in {"object_id"} |-> BVal("id-g2")],
                                 NoData, NoDtype, NoBuilder)
          [] b = B.d0 -> Builder("dataset", "d0", B.root, src, EmptyFn, d0, NoDtype, NoBuilder)
          [] b = B.d1 -> Builder("dataset", "d1", B.g1, src,
                                 PutAttr([k \in {"a"} |-> BVal("3")], "object_id", BVal("id-d1")),
                                 d1, NoDtype, NoBuilder)
          [] b = B.d2 -> Builder("dataset", "d2", B.g2, src, d2a, d2,
                                 [form |-> "name", name |-> d2.dtype], NoBuilder)
          [] b = B.l0 -> Builder("link", "l0", l0p, src, EmptyFn, NoData, NoDtype, B.g1)
          [] b = B.l1 -> Builder("link", "l1", B.g1, src, EmptyFn, NoData, NoDtype, l1t)]

Forests ==
    {Forest(dv[4], dv[1], dv[2], dv[3], lv[1], lv[2], dv[5], dv[6]) :
        dv \in DataVariants, lv \in LinkVariants}

\* ------------------------------------------------------------ the handlers
Modes == {"w", "r", "r-"}
\* link_data only decides something for a dataset whose value is a zarr Array
LinkDataChoices(S) == IF \E b \in S : bld[b].data.kind = "array" THEN BOOLEAN ELSE {TRUE}
NoArgs == [b |-> NoBuilder, link_data |-> TRUE, exhaust_dci |-> TRUE,
           export_source |-> NoExport, consolidate |-> FALSE, cache_spec |-> FALSE,
           check_on_disk |-> FALSE]
Call(op, args, status, log) == [op |-> op, args |-> args, status |-> status, log |-> log]

\* ZarrIO.__init__
NewObject(m) ==
    /\ mode' = m
    /\ isOpen' = FALSE
    /\ written' = {}
    /\ built' = EmptyFn
    /\ rb' = EmptyFn
    /\ nextId' = NumStatic
    /\ dciq' = NoQueue
    /\ calls' = 0

Init ==
    /\ bld \in Forests
    /\ mode = "w"
    /\ isOpen = FALSE
    /\ store = NoMeta
    /\ zmeta = NoMeta
    /\ written = {}
    /\ built = EmptyFn
    /\ rb = EmptyFn
    /\ nextId = NumStatic
    /\ dciq = NoQueue
    /\ calls = 0
    /\ objs = 1
    /\ last = Call("init", NoArgs, "ok", <<>>)

Construct ==
    \E m \in Modes :
        /\ objs < MaxObjects
        /\ objs' = objs + 1
        /\ NewObject(m)
        /\ last' = Call("init", NoArgs, "ok", <<>>)
        /\ UNCHANGED <<bld, store, zmeta>>

\* the call open() makes: which opener, on which file, with which zarr mode
OpenLog(m) == <<Ev(OpenHow(m), <<ThisFile>>, ModeToUse(m), NoBuilder)>>

\* ZarrIO.open: zarr.open with mode 'w' replaces whatever the path holds by an
\* empty root group; the read modes need the path to exist
Open ==
    /\ ~isOpen
    /\ IF mode = "w"
       THEN /\ store' = EmptyStore
            /\ zmeta' = NoMeta
            /\ isOpen' = TRUE
            /\ last' = Call("open", NoArgs, "ok", OpenLog(mode))
       ELSE /\ UNCHANGED <<store, zmeta>>
            /\ isOpen' = (store # NoMeta)
            /\ last' = Call("open", NoArgs, IF store # NoMeta THEN "ok" ELSE "PathNotFoundError",
                            IF store # NoMeta THEN OpenLog(mode) ELSE <<>>)
    /\ UNCHANGED <<bld, mode, written, built, rb, nextId, dciq, calls, objs>>

\* a close that clears the registries of the object
CloseForgets ==
    /\ isOpen' = FALSE
    /\ written' = {}
    /\ built' = EmptyFn
    /\ last' = Call("close", NoArgs, "ok", <<>>)
    /\ UNCHANGED <<bld, mode, store, zmeta, rb, nextId, dciq, calls, objs>>

\* ZarrIO.close
Close ==
    /\ isOpen' = FALSE
    /\ last' = Call("close", NoArgs, "ok", <<>>)
    /\ UNCHANGED <<bld, mode, store, zmeta, written, built, rb, nextId, dciq, calls, objs>>

\* zarr opens the read modes read-only: every mutation of the store then raises
ReadOnly == mode \in {"r", "r-"}

Frame == [store |-> store, zmeta |-> zmeta, written |-> written, dciq |-> dciq,
          ro |-> ReadOnly, log |-> <<>>, status |-> "ok"]

Commit(f, op, args) ==
    /\ store' = f.store
    /\ zmeta' = f.zmeta
    /\ written' = f.written
    /\ dciq' = f.dciq
    /\ last' = Call(op, args, f.status, f.log)
    /\ calls < MaxCalls
    /\ calls' = calls + 1
    /\ UNCHANGED <<bld, mode, isOpen, built, rb, nextId, objs>>

\* export_source only reaches __get_ref through the reference values of a
\* dataset written by this call (never through an attribute, never through a
\* subgroup), so only those calls are given both choices
HasRefData(b) == bld[b].kind = "dataset" /\ bld[b].data.kind \in {"refs", "compound_ref", "hdmf_containers"}
ExportChoices(b) ==
    IF HasRefData(b) \/ \E c \in StaticBuilders : bld[c].parent = b /\ HasRefData(c)
    THEN {NoExport, OtherFile} ELSE {NoExport}

\* A handler called on a read-only file fails at its first mutation whatever
\* its arguments are, so one choice of arguments stands for all of them there
Choices(S) == IF ReadOnly THEN {CHOOSE x \in S : TRUE} ELSE S

WriteBuilderCall ==
    /\ isOpen
    /\ \E ld \in Choices(LinkDataChoices(StaticBuilders)), ex \in Choices(BOOLEAN),
          es \in Choices({NoExport, OtherFile}) :
          Commit(WriteBuilder(Frame, B.root, ld, ex, es, TRUE), "write_builder",
                 [NoArgs EXCEPT !.b = B.root, !.link_data = ld, !.exhaust_dci = ex,
                                !.export_source = es, !.consolidate = TRUE])

WriteCall ==
    /\ isOpen
    /\ \E ld \in Choices(LinkDataChoices(StaticBuilders)), ex \in Choices(BOOLEAN),
          cm \in Choices(BOOLEAN), cs \in Choices(BOOLEAN) :
          Commit(Write(Frame, B.root, ld, ex, cm, cs), "write",
                 [NoArgs EXCEPT !.b = B.root, !.link_data = ld, !.exhaust_dci = ex,
                                !.consolidate = cm, !.cache_spec = cs])

ExportCall ==
    /\ isOpen
    /\ \E src \in Choices({OtherFile, H5File}), ex \in Choices(BOOLEAN) :
        \E ld \in Choices(IF src = H5File THEN BOOLEAN ELSE LinkDataChoices(StaticBuilders)) :
          Commit(Export(Frame, mode, B.root, src, ld, ex, TRUE), "export",
                 [NoArgs EXCEPT !.b = B.root, !.link_data = ld, !.exhaust_dci = ex,
                                !.export_source = src, !.consolidate = TRUE,
                                !.cache_spec = TRUE])

\* The handlers below are public too; their parent argument is the node of
\* the builder's parent, which has to exist for the caller to hold it.
ParentNode(b) == GetPath(bld[b].parent)
HoldsParent(b, kind) ==
    /\ isOpen
    /\ bld[b].kind = kind
    /\ bld[b].parent # NoBuilder
    /\ ParentNode(b) \in DOMAIN store
    /\ store[ParentNode(b)].kind = "group"
CanCall(b, kind) == HoldsParent(b, kind) /\ ~ReadOnly

WriteGroupCall ==
    \E b \in StaticBuilders, ex \in BOOLEAN :
      \E es \in ExportChoices(b) :
        /\ CanCall(b, "group")
        /\ Commit(WriteGroup(Frame, ParentNode(b), b, TRUE, ex, es), "write_group",
                  [NoArgs EXCEPT !.b = b, !.exhaust_dci = ex, !.export_source = es])

\* write_dataset is also called on a file opened read-only
WriteDatasetCall ==
    \E b \in StaticBuilders, ex \in Choices(BOOLEAN) :
      \E ld \in Choices(LinkDataChoices({b})), es \in Choices(ExportChoices(b)) :
        /\ HoldsParent(b, "dataset")
        /\ Commit(WriteDataset(Frame, ParentNode(b), b, ld, ex, es), "write_dataset",
                  [NoArgs EXCEPT !.b = b, !.link_data = ld, !.exhaust_dci = ex,
                                 !.export_source = es])

WriteLinkCall ==
    \E b \in StaticBuilders :
        /\ CanCall(b, "link")
        /\ Commit(WriteLink(Frame, ParentNode(b), b), "write_link", [NoArgs EXCEPT !.b = b])

\* ZarrIO.get_builder_disk_path: self.source joined with __get_path(builder);
\* a builder made by a read has its location set
DiskPath(b) == IF b \in StaticBuilders THEN GetPath(b) ELSE rb[b].location \o <<rb[b].name>>

\* ZarrIO.get_written
\* a get_written that never looks at the disk
GetWrittenFlagOnly(b, check_on_disk) == b \in written

GetWritten(b, check_on_disk) ==
    IF b \in written /\ check_on_disk
    THEN b \in written /\ DiskPath(b) \in DOMAIN store
    ELSE b \in written

\* The builders asked about: a group, a dataset and a link of the forest, and
\* the first builder made by a read.  check_on_disk only decides something
\* for a builder that is flagged.
QueryBuilders == {B.g1, B.d0, B.l1} \cup ({NumStatic} \cap DOMAIN rb)

\* a get_written that raises for a builder that is not flagged
GetWrittenCallRaising ==
    \E b \in QueryBuilders :
      \E cod \in (IF b \in written THEN BOOLEAN ELSE {FALSE}) :
        /\ calls < MaxCalls
        /\ calls' = calls + 1
        /\ last' = Call("get_written", [NoArgs EXCEPT !.b = b, !.check_on_disk = cod],
                        IF b \in written THEN "ok" ELSE "NotWritten",
                        <<Ev("return", DiskPath(b),
                             IF GetWritten(b, cod) THEN "True" ELSE "False", b)>>)
        /\ UNCHANGED <<bld, mode, isOpen, store, zmeta, written, built, rb, nextId, dciq, objs>>

GetWrittenCall ==
    \E b \in QueryBuilders :
      \E cod \in (IF b \in written THEN BOOLEAN ELSE {FALSE}) :
        /\ calls < MaxCalls
        /\ calls' = calls + 1
        /\ last' = Call("get_written", [NoArgs EXCEPT !.b = b, !.check_on_disk = cod], "ok",
                        <<Ev("return", DiskPath(b),
                             IF GetWritten(b, cod) THEN "True" ELSE "False", b)>>)
        /\ UNCHANGED <<bld, mode, isOpen, store, zmeta, written, built, rb, nextId, dciq, objs>>

ReadFrame == [built |-> built, written |-> written, rb |-> rb, nextId |-> nextId,
              attrs |-> EmptyFn, ret |-> NoBuilder, log |-> <<>>, status |-> "ok"]

CommitRead(f) ==
    /\ built' = f.built
    /\ written' = f.written
    /\ rb' = f.rb
    /\ nextId' = f.nextId
    /\ last' = Call("read_builder", [NoArgs EXCEPT !.b = f.ret], f.status, f.log)
    /\ calls < MaxCalls
    /\ calls' = calls + 1
    /\ UNCHANGED <<bld, mode, isOpen, store, zmeta, dciq, objs>>

ReadBuilderCall ==
    /\ isOpen
    /\ CommitRead(ReadBuilder(ReadFrame))

Next ==
    \/ ReadBuilderCall
    \/ Construct
    \/ Open
    \/ Close
    \/ WriteBuilderCall
    \/ WriteCall
    \/ ExportCall
    \/ WriteGroupCall
    \/ WriteDatasetCall
    \/ WriteLinkCall
    \/ GetWrittenCall

Spec == Init /\ [][Next]_vars

\* ------------------------------------------------------------- properties
Range(s) == {s[i] : i \in 1..Len(s)}
Events(log, e) == {i \in 1..Len(log) : log[i].e = e}

\* C1: a second write_dataset or write_link of a builder that is already
\* flagged written is a no-op: no node is created, no link entry appended, no
\* attribute written, and the store and the written flags stay as they were.
C1_RewriteIsNoOp ==
    [][(last'.op \in {"write_dataset", "write_link"} /\ last'.args.b \in written)
        => /\ store' = store
           /\ zmeta' = zmeta
           /\ written' = written
           /\ last'.log = <<>>
           /\ last'.status = "ok"]_vars

\* a write_dataset call that returned without any event on a builder whose
\* node an earlier call had written
C1_Witness ==
    /\ last.op = "write_dataset"
    /\ last.status = "ok"
    /\ last.log = <<>>
    /\ last.args.b \in written
    /\ GetPath(last.args.b) \in DOMAIN store

\* C2: write_group on a GroupBuilder that is already flagged written performs
\* no attribute write and no mutation of the store.
C2_WrittenGroupUntouched ==
    [][(last'.op = "write_group" /\ last'.args.b \in written)
        => /\ store' = store
           /\ Events(last'.log, "attr") = {}]_vars

\* C3: within one read session every physical node is represented by one
\* Builder object: the cache maps a node to a builder created for that node,
\* every arrival at a node (as a child, as a link target, as the target of a
\* reference attribute) holds the builder the cache holds for it, and
\* read_builder returns the cached builder of the root.
Referenced(i) ==
    Range(rb[i].groups) \cup Range(rb[i].datasets)
        \cup {rb[l].target : l \in Range(rb[i].links)}
        \cup {rb[i].attrs[k].t : k \in {j \in DOMAIN rb[i].attrs : rb[i].attrs[j].tag = "builder"}}

C3_OneBuilderPerNode ==
    /\ \A key \in DOMAIN built :
          /\ built[key] \in DOMAIN rb
          /\ rb[built[key]].node = key
          /\ \A t \in Referenced(built[key]) :
                rb[t].node \in DOMAIN built /\ built[rb[t].node] = t
    /\ (last.op = "read_builder" /\ last.status = "ok")
          => (<<ThisFile, <<>>>> \in DOMAIN built /\ last.args.b = built[<<ThisFile, <<>>>>])

\* a finished read in which one node was reached as a child of its group, as
\* the target of a link and as the target of a reference attribute
C3_Witness ==
    /\ last.op = "read_builder"
    /\ last.status = "ok"
    /\ \E i, j, m \in DOMAIN rb :
          \E t \in Range(rb[i].groups) \cup Range(rb[i].datasets) :
              /\ rb[j].kind = "link" /\ rb[j].target = t
              /\ \E k \in DOMAIN rb[m].attrs : rb[m].attrs[k] = RBuilt(t)
              /\ \E key \in DOMAIN built : built[key] = m

\* C4: read_builder terminates on every finite store, also when a link entry
\* or a reference attribute targets the node being read or one of its
\* ancestors: the read never runs into the recursion limit.
C4_ReadTerminates ==
    last.op = "read_builder" => last.status # "RecursionError"

\* the handlers that run write_builder
WBOps == {"write_builder", "write", "export"}

\* C5: when write_builder is given an export_source, every ReferenceRecord it
\* writes has source ".": in reference datasets, in compound fields and in
\* attributes, at every depth of the tree.
C5_ExportSourceEverywhere ==
    (last.op \in WBOps /\ last.status = "ok" /\ last.args.export_source # NoExport /\ calls = 1)
        => \A p \in DOMAIN store :
              /\ \A i \in 1..Len(store[p].refs) : store[p].refs[i].source = "."
              /\ \A k \in DOMAIN store[p].attrs :
                    store[p].attrs[k].tag = "ref" => store[p].attrs[k].ref.source = "."

\* C6 as stated: the written flags and the builder cache live for one session;
\* when the object is opened again nothing recorded before the close is left.
C6_RegistriesEmptyOnReopen ==
    [][(last'.op = "open" /\ last'.status = "ok") => (written' = {} /\ built' = EmptyFn)]_vars

\* C6 as the code has it: the written flags and the builder cache belong to
\* the IO object; close() and open() leave both as they are.
C6_RegistriesOutliveClose ==
    [][(last'.op \in {"close", "open"}) => (written' = written /\ built' = built)]_vars

\* an object opened again that still holds flags and cached builders
C6_Witness ==
    /\ last.op = "open"
    /\ last.status = "ok"
    /\ written # {}
    /\ built # EmptyFn

\* C7: write_builder writes, at every level and at the root, subgroups, then
\* datasets, then links, then the root's attributes, then drains the queue and
\* consolidates last; the links of the root land in the root's link list.
Prefix(p, q) == Len(p) <= Len(q) /\ SubSeq(q, 1, Len(p)) = p
ChildNamesOf(b, kind) == {bld[c].name : c \in Range(Children(b, kind))}
SubgroupEvents(log, b) ==
    {i \in 1..Len(log) : \E n \in ChildNamesOf(b, "group") : Prefix(GetPath(b) \o <<n>>, log[i].p)}
DatasetEvents(log, b) ==
    {i \in 1..Len(log) :
        \E n \in ChildNamesOf(b, "dataset") :
            \/ log[i].p = GetPath(b) \o <<n>>
            \/ log[i].e = "add_link" /\ log[i].p = GetPath(b) /\ log[i].k = n}
LinkEvents(log, b) ==
    {i \in 1..Len(log) :
        log[i].e = "add_link" /\ log[i].p = GetPath(b) /\ log[i].k \in ChildNamesOf(b, "link")}
\* the writes of the builder's own attributes (the root also receives
\* SPEC_LOC_ATTR, from write() once write_builder has returned)
AttrEvents(log, b) ==
    {i \in 1..Len(log) :
        log[i].e = "attr" /\ log[i].p = GetPath(b) /\ log[i].k \in DOMAIN bld[b].attrs}
AllBefore(S, T) == \A i \in S, j \in T : i < j
LevelOrder(log, b) ==
    /\ AllBefore(SubgroupEvents(log, b), DatasetEvents(log, b) \cup LinkEvents(log, b))
    /\ AllBefore(DatasetEvents(log, b), LinkEvents(log, b))
    /\ AllBefore(LinkEvents(log, b), AttrEvents(log, b))
TreeGroups == {b \in StaticBuilders : bld[b].kind = "group" /\ RootOf(b) = B.root}
RootLinks == {b \in StaticBuilders : bld[b].kind = "link" /\ bld[b].parent = B.root}

C7_WriteBuilderOrder ==
    (last.op \in WBOps /\ last.status = "ok" /\ calls = 1)
        => /\ \A b \in TreeGroups : LevelOrder(last.log, b)
           /\ AllBefore(AttrEvents(last.log, B.root), Events(last.log, "consolidate"))
           /\ \A b \in RootLinks :
                 /\ b \in written
                 /\ \E i \in 1..Len(store[<<>>].zarr_link) :
                       store[<<>>].zarr_link[i].name = bld[b].name

\* C8: when write_builder returns normally the queue is empty; the last drain
\* comes after every enqueue and before the root is flagged written and
\* before the metadata is consolidated.
RootFlagged(log) == {i \in Events(log, "set_written") : log[i].b = B.root}

C8_DrainedOnReturn ==
    (last.op \in WBOps /\ last.status = "ok")
        => /\ dciq.init /\ dciq.q = <<>>
           /\ RootFlagged(last.log) # {}
           /\ \E d \in Events(last.log, "drain") :
                 /\ AllBefore(Events(last.log, "enqueue"), {d})
                 /\ AllBefore({d}, RootFlagged(last.log))
                 /\ AllBefore({d}, Events(last.log, "consolidate"))

\* a write_builder that queued a chunk iterator and left its node filled
C8_Witness ==
    /\ last.op \in WBOps
    /\ last.status = "ok"
    /\ ~last.args.exhaust_dci
    /\ \E i \in Events(last.log, "enqueue") :
          last.log[i].p \in DOMAIN store /\ store[last.log[i].p].filled
    /\ dciq.q = <<>>

\* C9: for a dataset whose value is a chunk iterator write_dataset creates the
\* node with the declared shape and dtype before it enqueues it, enqueues it
\* once, and only a drain populates it: as long as the node is queued it is
\* there, unfilled, with that shape and dtype.
DeclaredShape(b) == bld[b].data.shape
DeclaredDtype(b) == ResolveDtype(bld[b].dtype, bld[b].data)
At(log, e, p) == {i \in Events(log, e) : log[i].p = p}

InTree(b) == b # B.root /\ RootOf(b) = B.root
BNodeFacts ==
    {<<<<>>, "group">>}
        \cup {<<GetPath(b), bld[b].kind>> : b \in {c \in StaticBuilders : InTree(c) /\ bld[c].kind # "link"}}
BLinkFacts ==
    {<<GetPath(bld[b].parent), bld[b].name, GetPath(bld[b].target)>> :
        b \in {c \in StaticBuilders : InTree(c) /\ bld[c].kind = "link"}}
BAttrFact(b, k) ==
    LET a == bld[b].attrs[k]
    IN IF a.tag = "ref" THEN <<GetPath(b), k, "ref", "object", GetPath(a.t)>>
       ELSE <<GetPath(b), k, "val", a.v, <<>>>>
BAttrFacts ==
    UNION {{BAttrFact(b, k) : k \in DOMAIN bld[b].attrs} :
              b \in {c \in StaticBuilders : (c = B.root \/ InTree(c)) /\ bld[c].kind # "link"}}

\* The tree as read: the builders under the returned root, by nesting
RECURSIVE RTree(_, _)
RTree(id, path) ==
    {<<id, path>>}
        \cup UNION {RTree(c, path \o <<rb[c].name>>) :
                       c \in Range(rb[id].groups) \cup Range(rb[id].datasets)}
RTargetPath(t) == IF rb[t].node[1] = ThisFile THEN rb[t].node[2] ELSE NoPath
RNodeFacts(R) == {<<x[2], rb[x[1]].kind>> : x \in R}
RLinkFacts(R) ==
    UNION {{<<x[2], rb[l].name, RTargetPath(rb[l].target)>> : l \in Range(rb[x[1]].links)} : x \in R}
RAttrFact(x, k) ==
    LET a == rb[x[1]].attrs[k]
    IN IF a.tag = "builder" THEN <<x[2], k, "ref", "object", RTargetPath(a.t)>>
       ELSE <<x[2], k, "val", a.v, <<>>>>
RAttrFacts(R) == UNION {{RAttrFact(x, k) : k \in DOMAIN rb[x[1]].attrs} : x \in R}

\* the file is what one write_builder call leaves on an empty path
FreshFrame == [store |-> EmptyStore, zmeta |-> NoMeta, written |-> {}, dciq |-> EmptyQueue,
               ro |-> FALSE, log |-> <<>>, status |-> "ok"]
LeavesThisFile(f) == f.status = "ok" /\ f.store = store /\ f.zmeta = zmeta
WrittenByWriteBuilder ==
    \E ex \in BOOLEAN, cm \in BOOLEAN :
        LeavesThisFile(WriteBuilder(FreshFrame, B.root, FALSE, ex, NoExport, cm))

C10_RoundTrip ==
    (/\ last.op = "read_builder"
     /\ calls = 1
     /\ bld[B.root].source = ThisFile
     /\ WrittenByWriteBuilder)
        => /\ last.status = "ok"
           /\ LET R == RTree(last.args.b, <<>>)
              IN /\ RNodeFacts(R) = BNodeFacts
                 /\ RLinkFacts(R) = BLinkFacts
                 /\ RAttrFacts(R) = BAttrFacts

\* C11: reference integrity.  If builder A holds a reference to builder B (a
\* dataset element, a compound field, an attribute or a link), then in the
\* file a write leaves, A's stored record is there, its path is B's path in
\* the store, and resolving it (resolve_ref) yields the node that carries B's
\* object_id.
ObjectIdOf(attrs) == IF "object_id" \in DOMAIN attrs THEN attrs["object_id"].v ELSE "null"
RecordOk(r, b) ==
    /\ r.path = GetPath(b)
    /\ ResolveOk(r)
    /\ ObjectIdOf(ObjNode(ResolveTarget(r)).attrs) = ObjectIdOf(bld[b].attrs)
AttrRecordOk(a, k) ==
    /\ GetPath(a) \in DOMAIN store
    /\ k \in DOMAIN store[GetPath(a)].attrs
    /\ store[GetPath(a)].attrs[k].tag = "ref"
    /\ RecordOk(store[GetPath(a)].attrs[k].ref, bld[a].attrs[k].t)
ElementRecordsOk(a) ==
    /\ GetPath(a) \in DOMAIN store
    /\ Len(store[GetPath(a)].refs) = Len(bld[a].data.targets)
    /\ \A i \in 1..Len(bld[a].data.targets) :
          RecordOk(store[GetPath(a)].refs[i], bld[a].data.targets[i])
LinkRecordOk(a) ==
    /\ GetPath(bld[a].parent) \in DOMAIN store
    /\ \E i \in 1..Len(store[GetPath(bld[a].parent)].zarr_link) :
          /\ store[GetPath(bld[a].parent)].zarr_link[i].name = bld[a].name
          /\ RecordOk([NoRef EXCEPT !.source = store[GetPath(bld[a].parent)].zarr_link[i].source,
                                    !.path = store[GetPath(bld[a].parent)].zarr_link[i].path],
                      bld[a].target)
TreeNodes == {b \in StaticBuilders : (b = B.root \/ InTree(b)) /\ bld[b].kind # "link"}
TreeLinks == {b \in StaticBuilders : InTree(b) /\ bld[b].kind = "link"}
\* a write of builders of this file into an empty store
WroteOwnTree ==
    /\ last.op \in WBOps
    /\ last.status = "ok"
    /\ calls = 1
    /\ bld[B.root].source = ThisFile

C11_ReferenceIntegrity ==
    WroteOwnTree
        => /\ \A a \in TreeNodes :
                 /\ \A k \in DOMAIN bld[a].attrs : bld[a].attrs[k].tag = "ref" => AttrRecordOk(a, k)
                 /\ HasRefData(a) => ElementRecordsOk(a)
           /\ \A a \in TreeLinks : LinkRecordOk(a)

\* C12: a dangling reference always surfaces as an error.  If a node of the
\* file being read holds a link entry or a reference attribute whose path
\* does not exist in the file it names, read_builder fails: it returns no
\* builder tree and the root is not entered in the cache.
Dangling(zarr_ref) == zarr_ref.path \notin DOMAIN Nodes(ResolveSource(zarr_ref.source))
HasDangling(node) ==
    \/ \E i \in 1..Len(node.zarr_link) : Dangling(node.zarr_link[i])
    \/ \E k \in DOMAIN node.attrs : node.attrs[k].tag = "ref" /\ Dangling(node.attrs[k].ref)
FileHasDangling ==
    \E p \in DOMAIN View(ThisFile, mode = "r") : HasDangling(View(ThisFile, mode = "r")[p])

C13_NoConsolidatedInRMinus ==
    /\ mode = "r-" => Events(last.log, "open_consolidated") = {}
    /\ OpenFileConsolidated(ThisFile, "r-") = "ValueError"
    /\ (last.op = "open" /\ last.status = "ok")
          => last.log = <<Ev(IF mode = "r" /\ zmeta # NoMeta THEN "open_consolidated" ELSE "open",
                             <<ThisFile>>, IF mode = "r-" THEN "r" ELSE mode, NoBuilder)>>

\* C14: export fails with UnsupportedOperation when the mode of the session
\* is not 'w', and when the source IO is of another backend and link_data is
\* true; the failure comes before any node, attribute or link entry is
\* written: the store and its consolidated metadata stay as they were.
C14_ExportRefused ==
    [][(/\ last'.op = "export"
        /\ \/ mode # "w"
           \/ last'.args.export_source = H5File /\ last'.args.link_data)
          => /\ last'.status = "UnsupportedOperation"
             /\ last'.log = <<>>
             /\ store' = store
             /\ zmeta' = zmeta
             /\ written' = written]_vars

\* an export from an HDF5 source refused in mode 'w' for its link_data
C14_Witness ==
    /\ last.op = "export"
    /\ mode = "w"
    /\ last.args.export_source = H5File
    /\ last.args.link_data
    /\ last.status = "UnsupportedOperation"
    /\ store = EmptyStore

\* C15: write on a session opened in a read-only mode, 'r' or 'r-', fails
\* with UnsupportedOperation and changes neither the store nor the written
\* flags.
C15_WriteRefusedReadOnly ==
    [][(last'.op = "write" /\ mode \in {"r", "r-"})
          => /\ last'.status = "UnsupportedOperation"
             /\ store' = store
             /\ zmeta' = zmeta
             /\ written' = written]_vars

\* C16: get_written(builder) returns True exactly when this IO object has
\* flagged the builder as written or read, and False for a builder it never
\* touched; with check_on_disk it returns True only if, in addition, the
\* builder's path exists on disk under this file.
Returned == last.log[1].k = "True"

C16_GetWritten ==
    last.op = "get_written"
        => /\ ~last.args.check_on_disk => (Returned <=> last.args.b \in written)
           /\ last.args.b \notin written => ~Returned
           /\ last.args.check_on_disk
                 => (Returned => /\ last.args.b \in written
                                 /\ DiskPath(last.args.b) \in DOMAIN store)

\* a flagged builder with no node at its path: the plain query says True,
\* the query with check_on_disk says False
C16_Witness ==
    /\ last.op = "get_written"
    /\ last.args.check_on_disk
    /\ last.args.b \in written
    /\ DiskPath(last.args.b) \notin DOMAIN store
    /\ ~Returned

\* C17 as stated: a write-status query on a builder that this session never
\* wrote or read yields the NotWritten error.
C17_UntouchedRaisesNotWritten ==
    (last.op = "get_written" /\ last.args.b \notin written) => last.status = "NotWritten"

\* C17 as the code has it: a write-status query on a builder that this
\* session never wrote or read returns False and raises nothing.
C17_UntouchedReturnsFalse ==
    (last.op = "get_written" /\ last.args.b \notin written)
        => (last.status = "ok" /\ ~Returned)

\* a query on a builder that is on disk, written there by an earlier IO
\* object, and that this object never flagged
C17_Witness ==
    /\ last.op = "get_written"
    /\ last.args.b \notin written
    /\ DiskPath(last.args.b) \in DOMAIN store
    /\ last.status = "ok"
    /\ ~Returned

\* C18: reading a dataset node that lacks the zarr_dtype attribute does not
\* fail: the read warns, takes the storage type of the array as the dtype, and
\* the DatasetBuilder it returns is cached and flagged written like any other.
Untagged(key) == Nodes(key[1])[key[2]].kind = "array" /\ Nodes(key[1])[key[2]].zarr_dtype = ""
Warned(log, key) == \E i \in Events(log, "warn") : log[i].k = key[1] /\ log[i].p = key[2]

C18_MissingTagReads ==
    (last.op = "read_builder" /\ calls = 1)
        => /\ \A i \in DOMAIN rb :
                 (rb[i].kind = "dataset" /\ Untagged(rb[i].node))
                    => /\ rb[i].dtype = Nodes(rb[i].node[1])[rb[i].node[2]].dtype
                       /\ i \in written
                       /\ rb[i].node \in DOMAIN built /\ built[rb[i].node] = i
                       /\ Warned(last.log, rb[i].node)
           /\ \A e \in Events(last.log, "warn") :
                 \E i \in DOMAIN rb : rb[i].node = <<last.log[e].k, last.log[e].p>>

\* a read that returned a tree holding the builder of an untagged array
C18_Witness ==
    /\ last.op = "read_builder"
    /\ calls = 1
    /\ last.status = "ok"
    /\ \E i \in DOMAIN rb : rb[i].kind = "dataset" /\ Untagged(rb[i].node) /\ rb[i].dtype = "int32"

\* --------------------------------------------- type resolution on its own
\* Descriptors a dataset can declare: unset, a concrete type, a symbolic name,
\* a reference descriptor, a list of fields (a field may be a list itself),
\* and a value of no known form.  Two names are outside the table.
DtNone == [form |-> "none", name |-> "", fields |-> <<>>]
DtOther == [form |-> "other", name |-> "3.5", fields |-> <<>>]
DtType(n) == [form |-> "type", name |-> n, fields |-> <<>>]
DtName(n) == [form |-> "name", name |-> n, fields |-> <<>>]
DtRef(n) == [form |-> "ref", name |-> n, fields |-> <<>>]
DtList(fields) == [form |-> "list", name |-> "", fields |-> fields]
Field(n, d) == [name |-> n, dtype |-> d]

FieldDescriptors ==
    {DtName("int"), DtName("complex"), DtType("float64"), DtRef("object"), DtNone, DtOther,
     DtList(<<Field("x", DtName("quaternion"))>>)}
Descriptors ==
    {DtNone, DtOther}
        \cup {DtType(n) : n \in {"float64", "int8", "str"}}
        \cup {DtName(n) : n \in DOMAIN Dtypes \cup {"complex", "quaternion"}}
        \cup {DtRef(n) : n \in {"object", "region", "ref", "reference", "weak"}}
        \cup {DtList(<<Field("a", d)>>) : d \in FieldDescriptors}
        \cup {DtList(<<Field("a", d), Field("b", e)>>) : d \in FieldDescriptors, e \in FieldDescriptors}
EmptyData == [NoData EXCEPT !.kind = "list", !.shape = <<0>>]
DataSamples == {ListData, StrData, EmptyData}

ResolveReturn(dtype, data, r) ==
    [op |-> "resolve_dtype", args |-> [dtype |-> dtype, data |-> data], status |-> r.status,
     log |-> <<>>, ret |-> r.t]

ResolveDtypeCall ==
    \E dtype \in Descriptors, data \in DataSamples :
        /\ last' = ResolveReturn(dtype, data, ResolveDtypeType(dtype, data))
        /\ UNCHANGED <<bld, mode, isOpen, store, zmeta, written, built, rb, nextId, dciq, calls, objs>>

InitDtype == Init /\ bld = CHOOSE f \in Forests : TRUE
NextDtype == ResolveDtypeCall
SpecDtype == InitDtype /\ [][NextDtype]_vars

\* C19: type resolution has two outcomes only.  A descriptor holding a
\* symbolic name, a reftype or a field type outside the table, or a value of
\* no known form, fails with an error; every other descriptor resolves to a
\* defined storage type, never to None and never with an undefined field.
RECURSIVE Offending(_)
Offending(dtype) ==
    \/ dtype.form \in {"name", "ref"} /\ dtype.name \notin DOMAIN Dtypes
    \/ dtype.form = "other"
    \/ dtype.form = "list"
          /\ \E i \in 1..Len(dtype.fields) : Offending(dtype.fields[i].dtype)
RECURSIVE Defined(_)
Defined(t) ==
    /\ t # NoneType
    /\ \A i \in 1..Len(t.fields) : Defined(t.fields[i].t)

C19_ResolutionTotal ==
    last.op = "resolve_dtype"
        => /\ last.status \in {"ok", "ValueError"}
           /\ Offending(last.args.dtype) => last.status = "ValueError"
           /\ last.status = "ok" => Defined(last.ret)

\* C20: when a writing call returns, every array node it created through
\* write_dataset carries the zarr_dtype attribute, whichever branch of the
\* dispatch created it.
CreatedArrays(log) == {log[i].p : i \in Events(log, "create_array")}

C20_CreatedNodesTagged ==
    (last.op \in WBOps \cup {"write_group", "write_dataset"} /\ last.status = "ok")
        => \A p \in CreatedArrays(last.log) :
              p \in DOMAIN store /\ store[p].zarr_dtype # ""

\* C21: a write_dataset of a builder not yet written that produces a node
\* writes every attribute of the builder to that node exactly once, after the
\* node exists, and leaves the builder flagged written; when it writes a link
\* to an existing array it writes no attribute at all.
AttrWrites(log, p, k) == {i \in At(log, "attr", p) : log[i].k = k}
DatasetNode(b) == ParentNode(b) \o <<bld[b].name>>

C21_AttributesOnce ==
    [][(last'.op = "write_dataset" /\ last'.status = "ok" /\ last'.args.b \notin written)
        => /\ last'.args.b \in written'
           /\ IF Linked(bld[last'.args.b].data, last'.args.link_data)
              THEN Events(last'.log, "attr") = {}
              ELSE \A k \in DOMAIN bld[last'.args.b].attrs :
                      /\ Cardinality(AttrWrites(last'.log, DatasetNode(last'.args.b), k)) = 1
                      /\ \A i \in AttrWrites(last'.log, DatasetNode(last'.args.b), k) :
                            \E c \in At(last'.log, "create_array", DatasetNode(last'.args.b)) :
                                c < i]_vars

\* C22: a write_builder with exhaust_dci = False drains the queue once, and
\* only at its end: after every node has been created, every chunk iterator
\* enqueued and the attributes of the root written.
RootAttrWrites(log) == {i \in At(log, "attr", <<>>) : log[i].k \in DOMAIN bld[B.root].attrs}

C22_SingleDrainAtEnd ==
    (last.op \in WBOps /\ last.status = "ok" /\ ~last.args.exhaust_dci)
        => /\ Cardinality(Events(last.log, "drain")) = 1
           /\ \A d \in Events(last.log, "drain") :
                 /\ AllBefore(Events(last.log, "enqueue"), {d})
                 /\ AllBefore(Events(last.log, "create_array"), {d})
                 /\ AllBefore(RootAttrWrites(last.log), {d})

\* C23: in a write() with consolidate_metadata = True nothing is written to
\* the store after the consolidation: no group, dataset, attribute or link
\* entry follows it in the call, and the metadata it leaves is that of the store.
StoreEvents == {"require_group", "create_array", "zarr_dtype", "fill", "attr", "add_link", "drain"}
Mutations(log) == {i \in 1..Len(log) : log[i].e \in StoreEvents}

C23_ConsolidatedLast ==
    (last.op = "write" /\ last.status = "ok" /\ last.args.consolidate)
        => /\ Events(last.log, "consolidate") # {}
           /\ AllBefore(Mutations(last.log), Events(last.log, "consolidate"))
           /\ zmeta = store

\* C24: write_link of a LinkBuilder not yet written appends one entry to the
\* end of zarr_link of the parent node: the name of the link, the path of the
\* target, and the source "." when the link and its target have the same
\* origin; nothing else in the store changes and the LinkBuilder is flagged.
LinkEntry(b) ==
    [source |-> IF bld[b].source = bld[bld[b].target].source
                THEN "." ELSE RelPath(bld[bld[b].target].source),
     path |-> GetPath(bld[b].target),
     name |-> bld[b].name]

InEffect(data, link_data) == (data.wrapped /\ data.wlink) \/ (~data.wrapped /\ link_data)
ArrayEntry(b) ==
    [source |-> AbsPath(OtherFile), path |-> bld[b].data.path, name |-> bld[b].name]

C25_LinkOrCopy ==
    [][(/\ last'.op = "write_dataset"
        /\ last'.status = "ok"
        /\ last'.args.b \notin written
        /\ bld[last'.args.b].data.kind = "array")
        => IF InEffect(bld[last'.args.b].data, last'.args.link_data)
           THEN /\ Cardinality(Events(last'.log, "add_link")) = 1
                /\ Events(last'.log, "create_array") = {}
                /\ DOMAIN store' = DOMAIN store
                /\ store'[ParentNode(last'.args.b)].zarr_link =
                      Append(store[ParentNode(last'.args.b)].zarr_link, ArrayEntry(last'.args.b))
           ELSE /\ Events(last'.log, "add_link") = {}
                /\ At(last'.log, "create_array", DatasetNode(last'.args.b)) # {}
                /\ DatasetNode(last'.args.b) \in DOMAIN store'
                /\ store'[DatasetNode(last'.args.b)].kind = "array"
                /\ store'[ParentNode(last'.args.b)].zarr_link =
                      store[ParentNode(last'.args.b)].zarr_link]_vars

\* a write_dataset that linked an array because its wrapper said so, against
\* the link_data argument of the call
C25_Witness ==
    /\ last.op = "write_dataset"
    /\ last.status = "ok"
    /\ bld[last.args.b].data.kind = "array"
    /\ bld[last.args.b].data.wrapped
    /\ bld[last.args.b].data.wlink
    /\ ~last.args.link_data
    /\ Events(last.log, "add_link") # {}
    /\ DatasetNode(last.args.b) \notin DOMAIN store

\* C26: when read_builder returns, every group and dataset builder of the tree
\* it returns, the targets of links and of reference attributes included, is
\* the builder that __built holds for its node, and every group, dataset and
\* link builder of the tree is flagged written.
TreeSucc(i) == Referenced(i) \cup Range(rb[i].links)

RECURSIVE TreeFrom(_)
TreeFrom(S) ==
    IF UNION {TreeSucc(i) : i \in S} \subseteq S THEN S
    ELSE TreeFrom(S \cup UNION {TreeSucc(i) : i \in S})

C26_TreeRegistered ==
    (last.op = "read_builder" /\ last.status = "ok")
        => \A i \in TreeFrom({last.args.b}) :
              /\ i \in written
              /\ rb[i].kind \in {"group", "dataset"}
                    => (rb[i].node \in DOMAIN built /\ built[rb[i].node] = i)

\* a read whose tree holds a link to an array of the other file, next to
\* groups and datasets of this file
C26_Witness ==
    /\ last.op = "read_builder"
    /\ last.status = "ok"
    /\ \E l \in TreeFrom({last.args.b}) :
          /\ rb[l].kind = "link"
          /\ rb[rb[l].target].node[1] = OtherFile
          /\ built[rb[rb[l].target].node] = rb[l].target
    /\ \E d \in TreeFrom({last.args.b}) : rb[d].kind = "dataset" /\ rb[d].node[1] = ThisFile
    /\ Cardinality(TreeFrom({last.args.b})) >= 5

\* C27: a writing call, also one that a failure aborts, flags a dataset builder
\* written only when the node of the builder is in the store, or, for a linked
\* array, its entry is in zarr_link of the parent node: no state of a session
\* holds a flag set ahead of the node.
WriteOps == WBOps \cup {"write_group", "write_dataset", "write_link"}
HasEntry(s, p, name) ==
    p \in DOMAIN s /\ \E i \in 1..Len(s[p].zarr_link) : s[p].zarr_link[i].name = name
Stored(s, b) ==
    \/ GetPath(b) \in DOMAIN s /\ s[GetPath(b)].kind = "array"
    \/ HasEntry(s, ParentNode(b), bld[b].name)

C27_FlaggedIsStored ==
    [][last'.op \in WriteOps
        => \A b \in (written' \ written) \cap StaticBuilders :
              bld[b].kind = "dataset" => Stored(store', b)]_vars

\* C28: in every state, a group builder that is flagged written has all its
\* child groups, child datasets and child links flagged written too.
ChildBuilders(g) == {c \in StaticBuilders : bld[c].parent = g}

C28_ChildrenWritten ==
    \A g \in written \cap StaticBuilders :
        bld[g].kind = "group" => ChildBuilders(g) \subseteq written

\* ------------------------------------------------- path of a builder alone
\* Trees of groups without a location: builder 0 is the root of the tree,
\* every other builder hangs below one with a smaller identity, siblings have
\* different names, and any builder may carry the name ROOT_NAME.
PathIds == 0..3
PathNamesOf == {ROOT_NAME, "a", "b"}
PathTree(names, parents) ==
    [b \in PathIds |->
        Builder("group", IF b = 0 THEN ROOT_NAME ELSE names[b],
                IF b = 0 THEN NoBuilder ELSE parents[b],
                ThisFile, EmptyFn, NoData, NoDtype, NoBuilder)]
PathParents == {p \in [1..3 -> PathIds] : \A b \in 1..3 : p[b] < b}
PathTrees ==
    {PathTree(n, p) : n \in [1..3 -> PathNamesOf],
                      p \in PathParents}
SiblingsDiffer(t) ==
    \A b, c \in DOMAIN t : (b # c /\ t[b].parent = t[c].parent) => t[b].name # t[c].name

GetPathCall ==
    \E b \in DOMAIN bld :
        /\ last' = [op |-> "get_path", args |-> [b |-> b], status |-> "ok", log |-> <<>>,
                    ret |-> GetPath(b)]
        /\ UNCHANGED <<bld, mode, isOpen, store, zmeta, written, built, rb, nextId, dciq, calls, objs>>

InitPath ==
    /\ bld \in {t \in PathTrees : SiblingsDiffer(t)}
    /\ mode = "w"
    /\ isOpen = FALSE
    /\ store = NoMeta
    /\ zmeta = NoMeta
    /\ written = {}
    /\ built = EmptyFn
    /\ rb = EmptyFn
    /\ nextId = NumStatic
    /\ dciq = NoQueue
    /\ calls = 0
    /\ objs = 1
    /\ last = Call("init", NoArgs, "ok", <<>>)
NextPath == GetPathCall
SpecPath == InitPath /\ [][NextPath]_vars

\* C29: the path computed for a builder without a location is made of the
\* names of its ancestors below the root of the tree and of its own name, and
\* no other builder of the tree gets the same path, also when a group that is
\* not the root of the tree is named ROOT_NAME.
RECURSIVE NamesBelowRoot(_)
NamesBelowRoot(b) ==
    IF bld[b].parent = NoBuilder THEN <<>>
    ELSE NamesBelowRoot(bld[b].parent) \o <<bld[b].name>>

C29_PathIdentifies ==
    last.op = "get_path"
        => /\ last.ret = NamesBelowRoot(last.args.b)
           /\ \A c \in DOMAIN bld : c # last.args.b => GetPath(c) # last.ret

\* C30: a writing call that reaches the chunk-iterator branch of write_dataset
\* finds a queue: the node it sets up for the iterator is enqueued in the same
\* call, whatever calls came before and whatever exhaust_dci is.
ChunkedBuilders == {b \in StaticBuilders : bld[b].kind = "dataset" /\ bld[b].data.kind = "dci"}

C30_QueueReceives ==
    last.op \in WriteOps
        => \A b \in ChunkedBuilders :
              At(last.log, "create_array", GetPath(b)) # {}
                  => At(last.log, "enqueue", GetPath(b)) # {}

====
